---------------------------- MODULE Spec2Model ----------------------------
(***************************************************************************)
(* Elo rating update of src/elo.rs: expected_score, elo and                *)
(* elo_rating_period, over a binary floating-point format with IEEE-754    *)
(* semantics (round to nearest, ties to even, gradual underflow, overflow  *)
(* to infinity, NaN).  The format is f64 scaled down: a significand of     *)
(* Precision bits instead of 53 and a quantum of 2^-FracBits instead of    *)
(* 2^-1074.  A float is held as the integer count of quanta it is worth,   *)
(* so every operation is the exact integer (or rational) result followed   *)
(* by one rounding, as the hardware does it.                               *)
(***************************************************************************)
EXTENDS Integers, Sequences, FiniteSets

(***************************************************************************)
(* Bounds of the model.                                                    *)
(***************************************************************************)
\* Bits of the significand (f64: 53).
Precision == 7

\* The quantum, the smallest positive float, is 2^-FracBits (f64: 2^-1074).
FracBits == 13

\* Longest results vector handed to elo_rating_period.
MaxResults == 2

(***************************************************************************)
(* The floating-point format.                                              *)
(***************************************************************************)
\* 1.0 in quanta.
One == 2^FracBits

\* Largest finite float (f64::MAX scaled down): the top binade is [2^13, 2^14).
MaxFinite == (2^Precision - 1) * 2^(FracBits + 14 - Precision)

PosInf == 2^30

NegInf == -(2^30)

NaN == -(2^30) - 1

\* f64::EPSILON: the gap between 1.0 and the next float.
EPSILON == 2^(FracBits - Precision + 1)

IsFinite(x) == NegInf < x /\ x < PosInf

Abs(n) == IF n < 0 THEN -n ELSE n

\* Number of bits of a natural number.
RECURSIVE Bits(_)
Bits(n) == IF n <= 0 THEN 0 ELSE 1 + Bits(n \div 2)

\* The nonnegative real whole + r/d (0 <= r < d) rounded to the nearest float,
\* ties to the even significand; beyond MaxFinite it overflows to infinity.
RoundPos(whole, r, d) ==
  LET s == Bits(whole) - Precision
      res == IF s <= 0
             THEN IF 2 * r > d \/ (2 * r = d /\ whole % 2 = 1)
                  THEN whole + 1 ELSE whole
             ELSE LET u == 2^s
                      base == (whole \div u) * u
                      rem == whole - base
                      half == u \div 2
                  IN IF \/ rem > half
                        \/ (rem = half /\ r > 0)
                        \/ (rem = half /\ r = 0 /\ (base \div u) % 2 = 1)
                     THEN base + u ELSE base
  IN IF res > MaxFinite THEN PosInf ELSE res

\* The real whole + r/d (0 <= r < d, whole of either sign) rounded to nearest.
Round(whole, r, d) ==
  IF whole >= 0 THEN RoundPos(whole, r, d)
  ELSE IF r = 0 THEN -RoundPos(-whole, 0, 1)
  ELSE -RoundPos(-whole - 1, d - r, d)

\* The float nearest to the integer v (v = 1000 is the rating 1000.0).
Lit(v) == Round(v * One, 0, 1)

\* x + y
Add(x, y) ==
  IF x = NaN \/ y = NaN THEN NaN
  ELSE IF ~IsFinite(x) THEN (IF ~IsFinite(y) /\ y # x THEN NaN ELSE x)
  ELSE IF ~IsFinite(y) THEN y
  ELSE Round(x + y, 0, 1)

Neg(x) == IF x = NaN THEN NaN ELSE -x

\* x - y
Sub(x, y) == Add(x, Neg(y))

\* Largest power of two, at most cap, dividing n > 0.
RECURSIVE Pow2Factor(_, _)
Pow2Factor(n, cap) ==
  IF cap > 1 /\ n % 2 = 0 THEN 2 * Pow2Factor(n \div 2, cap \div 2) ELSE 1

\* x / y
Div(x, y) ==
  IF x = NaN \/ y = NaN THEN NaN
  ELSE IF ~IsFinite(x) THEN (IF ~IsFinite(y) THEN NaN
                             ELSE IF y >= 0 THEN x ELSE -x)
  ELSE IF ~IsFinite(y) THEN 0
  ELSE IF y = 0 THEN (IF x = 0 THEN NaN ELSE IF x > 0 THEN PosInf ELSE NegInf)
  ELSE LET c == Pow2Factor(Abs(y), One)
           num == (IF y < 0 THEN -x ELSE x) * (One \div c)
           den == Abs(y) \div c
       IN Round(num \div den, num % den, den)

\* Bug: the receiver and the arguments of mul_add confused, x * z + k.
mul_add_swapped(k, x, z) ==
  IF IsFinite(x) /\ IsFinite(z) /\ IsFinite(k)
  THEN Round(k + x * (z \div One), 0, 1)
  ELSE NaN

\* f64::mul_add: k * x + z with a single rounding.
mul_add(k, x, z) ==
  IF k = NaN \/ x = NaN \/ z = NaN THEN NaN
  ELSE IF ~IsFinite(k) \/ ~IsFinite(x)
       THEN IF k = 0 \/ x = 0 THEN NaN
            ELSE Add(IF (k > 0) = (x > 0) THEN PosInf ELSE NegInf, z)
  ELSE IF ~IsFinite(z) THEN z
  ELSE LET c == IF k = 0 THEN One ELSE Pow2Factor(Abs(k), One)
           prod == (k \div c) * x
           d == One \div c
       IN Round(z + (prod \div d), prod % d, d)

\* 10^(digit / 8^(j+1)) in 2^-14 fixed point, for j = 0..4 and digit = 0..7.
PowTable ==
  << <<16384, 21848, 29135, 38853, 51811, 69091, 92134, 122863>>,
     <<16384, 16984, 17606, 18251, 18920, 19613, 20332, 21076>>,
     <<16384, 16458, 16532, 16607, 16681, 16757, 16832, 16908>>,
     <<16384, 16393, 16402, 16412, 16421, 16430, 16439, 16449>>,
     <<16384, 16385, 16386, 16387, 16389, 16390, 16391, 16392>> >>

\* Product of two 2^-14 fixed-point numbers, rounded.
MulFix(a, b) ==
  (a * (b \div 128) + ((a * (b % 128)) \div 128) + 64) \div 128

\* 10^(f / 2^15) for 0 <= f < 2^15 in 2^-14 fixed point: the product of one
\* table entry for each octal digit of f.
RECURSIVE PowFrac(_, _)
PowFrac(f, j) ==
  IF j = 0 THEN 2^14
  ELSE MulFix(PowFrac(f, j - 1), PowTable[j][((f \div (8^(5 - j))) % 8) + 1])

\* Bug: 10.0 * q written for 10.0.powf(q).
powf10_times(q) ==
  IF IsFinite(q) THEN Round(10 * q, 0, 1) ELSE q

\* 10_f64.powf(q): q is split into its floor and its fraction, 10^fraction is
\* computed to 14 bits, scaled by 10^floor and rounded once.
powf10(q) ==
  IF q = NaN THEN NaN
  ELSE IF q >= 5 * One THEN PosInf
  ELSE IF q <= -6 * One THEN 0
  ELSE LET fl == q \div One
           m == PowFrac((q % One) * 2^(15 - FracBits), 5)
           sh == 2^(14 - FracBits)
       IN IF fl >= 0
          THEN Round((m * 10^fl) \div sh, (m * 10^fl) % sh, sh)
          ELSE Round(m \div (sh * 10^(-fl)), m % (sh * 10^(-fl)), sh * 10^(-fl))

(***************************************************************************)
(* The three functions of elo.rs.                                          *)
(***************************************************************************)
Outcomes == {"WIN", "LOSS", "DRAW"}

\* Bug: the arms of the match exchanged, a win scored as a loss.
OutcomeScore_swapped(outcome) ==
  CASE outcome = "WIN" -> 0
    [] outcome = "LOSS" -> One
    [] outcome = "DRAW" -> One \div 2

\* The match on the outcome: player one's score.
OutcomeScore(outcome) ==
  CASE outcome = "WIN" -> One
    [] outcome = "LOSS" -> 0
    [] outcome = "DRAW" -> One \div 2

\* Bug: the second line copied from the first, the difference not reversed.
expected_score_same_sign(player_one, player_two) ==
  << Div(One, Add(One, powf10(Div(Sub(player_two, player_one), Lit(400))))),
     Div(One, Add(One, powf10(Div(Sub(player_two, player_one), Lit(400))))) >>

\* Bug: the second score taken as 1.0 minus the first.
expected_score_complement(player_one, player_two) ==
  LET one == Div(One, Add(One, powf10(Div(Sub(player_two, player_one), Lit(400)))))
  IN << one, Sub(One, one) >>

\* Bug: the "1.0 +" of the denominator dropped.
expected_score_no_one(player_one, player_two) ==
  << Div(One, powf10(Div(Sub(player_two, player_one), Lit(400)))),
     Div(One, powf10(Div(Sub(player_one, player_two), Lit(400)))) >>

expected_score(player_one, player_two) ==
  << Div(One, Add(One, powf10(Div(Sub(player_two, player_one), Lit(400))))),
     Div(One, Add(One, powf10(Div(Sub(player_one, player_two), Lit(400))))) >>

\* Bug: player two scored with player one's outcome, o for 1.0 - o.
elo_same_score(player_one, player_two, outcome, k) ==
  LET expected == expected_score(player_one, player_two)
      o == OutcomeScore(outcome)
  IN << mul_add(k, Sub(o, expected[1]), player_one),
        mul_add(k, Sub(o, expected[2]), player_two) >>

\* Bug: the sign of the update reversed, expected minus observed.
elo_reversed(player_one, player_two, outcome, k) ==
  LET expected == expected_score(player_one, player_two)
      o == OutcomeScore(outcome)
  IN << mul_add(k, Sub(expected[1], o), player_one),
        mul_add(k, Sub(expected[2], Sub(One, o)), player_two) >>

elo(player_one, player_two, outcome, k) ==
  LET expected == expected_score(player_one, player_two)
      one_expected == expected[1]
      two_expected == expected[2]
      o == OutcomeScore(outcome)
      one_new_elo == mul_add(k, Sub(o, one_expected), player_one)
      two_new_elo == mul_add(k, Sub(Sub(One, o), two_expected), player_two)
  IN << one_new_elo, two_new_elo >>

\* elo_rating_period as the function it computes: the loop run to its end.
RECURSIVE elo_rating_period(_, _, _)
elo_rating_period(player, results, k) ==
  IF results = << >> THEN player
  ELSE elo_rating_period(elo(player, Head(results)[1], Head(results)[2], k)[1],
                         Tail(results), k)

(***************************************************************************)
(* Inputs.                                                                 *)
(***************************************************************************)
\* Ratings handed to expected_score and elo.
Ratings == {Lit(0), Lit(600), Lit(984), Lit(1000), Lit(1016), Lit(1104),
            Lit(1408), Lit(8320)}

\* K-factors (EloConfig.k); 32 is the default.
KFactors == {Lit(16), Lit(32), Lit(100)}

\* Ratings of the player and of the opponents of a rating period.
PeriodPlayers == {Lit(1000), Lit(1104), Lit(8320)}

Opponents == {Lit(0), Lit(1000), Lit(1408)}

PeriodKFactors == {Lit(32), Lit(100)}

ResultLists ==
  UNION {[1..n -> Opponents \X Outcomes] : n \in 0..MaxResults}

(***************************************************************************)
(* State: the call in progress, its arguments, its locals and its result.  *)
(***************************************************************************)
VARIABLES
  pc,          \* "idle", "expected_score", "elo", "loop" or "done"
  player_one,  \* arguments of expected_score and elo
  player_two,
  outcome,
  k,           \* config.k
  ret,         \* the returned tuple (one element for elo_rating_period)
  player_in,   \* elo_rating_period: the player argument
  results,     \* elo_rating_period: the results argument
  player,      \* elo_rating_period: the local `player`
  i,           \* elo_rating_period: results consumed by the for loop
  history      \* values `player` has held, oldest first

vars == << pc, player_one, player_two, outcome, k, ret, player_in, results,
           player, i, history >>

Init ==
  /\ pc = "idle"
  /\ player_one = 0
  /\ player_two = 0
  /\ outcome = "DRAW"
  /\ k = Lit(32)
  /\ ret = << >>
  /\ player_in = 0
  /\ results = << >>
  /\ player = 0
  /\ i = 0
  /\ history = << >>

\* A call of expected_score(a, b).
CallExpectedScore ==
  /\ pc = "idle"
  /\ \E a \in Ratings, b \in Ratings :
       /\ player_one' = a
       /\ player_two' = b
       /\ ret' = expected_score(a, b)
  /\ pc' = "expected_score"
  /\ UNCHANGED << outcome, k, player_in, results, player, i, history >>

\* A call of elo(a, b, out, config).
CallElo ==
  /\ pc = "idle"
  /\ \E a \in Ratings, b \in Ratings, out \in Outcomes, kf \in KFactors :
       /\ player_one' = a
       /\ player_two' = b
       /\ outcome' = out
       /\ k' = kf
       /\ ret' = elo(a, b, out, kf)
  /\ pc' = "elo"
  /\ UNCHANGED << player_in, results, player, i, history >>

\* Bug: the local starts from EloRating::new() instead of the argument.
PeriodEnter_default ==
  /\ pc = "idle"
  /\ \E p \in PeriodPlayers, rs \in ResultLists, kf \in PeriodKFactors :
       /\ player_in' = p
       /\ results' = rs
       /\ k' = kf
       /\ player' = Lit(1000)
       /\ history' = << Lit(1000) >>
  /\ i' = 0
  /\ pc' = "loop"
  /\ UNCHANGED << player_one, player_two, outcome, ret >>

\* elo_rating_period is entered: `let mut player = player;`.
PeriodEnter ==
  /\ pc = "idle"
  /\ \E p \in PeriodPlayers, rs \in ResultLists, kf \in PeriodKFactors :
       /\ player_in' = p
       /\ results' = rs
       /\ k' = kf
       /\ player' = p
       /\ history' = << p >>
  /\ i' = 0
  /\ pc' = "loop"
  /\ UNCHANGED << player_one, player_two, outcome, ret >>

\* Bug: every match played from the rating the period started with.
PeriodIterate_stale ==
  /\ pc = "loop"
  /\ i < Len(results)
  /\ LET updated == elo(player_in, results[i + 1][1], results[i + 1][2], k)
     IN /\ player' = updated[1]
        /\ history' = Append(history, updated[1])
  /\ i' = i + 1
  /\ UNCHANGED << pc, player_one, player_two, outcome, k, ret, player_in, results >>

\* One iteration of the for loop: `(player, _) = elo(player, *opponent, *result, config)`.
PeriodIterate ==
  /\ pc = "loop"
  /\ i < Len(results)
  /\ LET opponent == results[i + 1][1]
         result == results[i + 1][2]
         updated == elo(player, opponent, result, k)
     IN /\ player' = updated[1]
        /\ history' = Append(history, updated[1])
  /\ i' = i + 1
  /\ UNCHANGED << pc, player_one, player_two, outcome, k, ret, player_in, results >>

\* The loop is over: `player` is returned.
PeriodReturn ==
  /\ pc = "loop"
  /\ i = Len(results)
  /\ ret' = << player >>
  /\ pc' = "done"
  /\ UNCHANGED << player_one, player_two, outcome, k, player_in, results,
                  player, i, history >>

Next ==
  \/ CallExpectedScore
  \/ CallElo
  \/ PeriodEnter
  \/ PeriodIterate
  \/ PeriodReturn

Spec == Init /\ [][Next]_vars

(***************************************************************************)
(* Properties.                                                             *)
(***************************************************************************)
InPeriod == pc \in {"loop", "done"}

\* The exact amount by which the sum of the two ratings changed in elo.
SumDrift == (ret[1] - player_one) + (ret[2] - player_two)

\* x with k added (subtracted) n times, each sum rounded.
RECURSIVE AddN(_, _, _)
AddN(x, kf, n) == IF n = 0 THEN x ELSE AddN(Add(x, kf), kf, n - 1)

RECURSIVE SubN(_, _, _)
SubN(x, kf, n) == IF n = 0 THEN x ELSE SubN(Sub(x, kf), kf, n - 1)

Invert(out) ==
  CASE out = "WIN" -> "LOSS"
    [] out = "LOSS" -> "WIN"
    [] out = "DRAW" -> "DRAW"

C2_ExpectedScoresSumToOne ==
  pc = "expected_score" => Abs(Add(ret[1], ret[2]) - One) <= EPSILON

\* Two different ratings whose expected scores do not add up to exactly 1.0.
C2_Witness ==
  /\ pc = "expected_score"
  /\ player_one # player_two
  /\ Add(ret[1], ret[2]) # One

\* C3: elo with the players exchanged and the outcome inverted returns the
\* same two ratings in exchanged positions (WIN/LOSS, LOSS/WIN, DRAW/DRAW).
C3_PlayerSwapSymmetry ==
  pc = "elo"
    => elo(player_two, player_one, Invert(outcome), k) = << ret[2], ret[1] >>

\* A decided match between two different ratings that changed both of them.
C3_Witness ==
  /\ pc = "elo"
  /\ outcome = "WIN"
  /\ player_one # player_two
  /\ ret[1] # player_one
  /\ ret[2] # player_two
  /\ ret[1] # ret[2]

\* C4: in elo_rating_period the running rating after j results is the first
\* component of elo(running rating after j-1 results, the j-th listed
\* opponent, the j-th outcome, config), the value returned is the left fold of
\* elo over the list as given.
C4_PeriodIsLeftFold ==
  InPeriod =>
    /\ Len(history) = i + 1
    /\ history[1] = player_in
    /\ player = history[i + 1]
    /\ \A j \in 1..i :
         history[j + 1] = elo(history[j], results[j][1], results[j][2], k)[1]
    /\ pc = "done" => ret = << elo_rating_period(player_in, results, k) >>

\* A finished period in which the same opponent rating is listed twice and
\* both matches moved the player.
C4_Witness ==
  /\ pc = "done"
  /\ Len(results) = 2
  /\ results[1][1] = results[2][1]
  /\ history[2] # history[1]
  /\ history[3] # history[2]

\* C5: elo_rating_period with an empty results vector returns the rating it
\* was given.
C5_EmptyResultsIdentity ==
  (pc = "done" /\ results = << >>) => ret = << player_in >>

\* An empty period finished for a player who is not at the default rating.
C5_Witness ==
  pc = "done" /\ results = << >> /\ player_in = Lit(8320) /\ ret = << Lit(8320) >>

\* C6 as stated: both expected scores lie strictly between 0 and 1.
C6_OpenInterval ==
  pc = "expected_score"
    => /\ 0 < ret[1] /\ ret[1] < One
       /\ 0 < ret[2] /\ ret[2] < One

\* C6 amended: both expected scores lie in the closed interval [0, 1]; a
\* large rating gap gives exactly 1.0 and exactly 0.0.
C6_ClosedInterval ==
  pc = "expected_score"
    => /\ 0 <= ret[1] /\ ret[1] <= One
       /\ 0 <= ret[2] /\ ret[2] <= One

\* A rating gap for which the expected scores are exactly 0.0 and 1.0.
C6_Witness ==
  pc = "expected_score" /\ ret = << 0, One >>

\* C7: equal ratings have expected scores (0.5, 0.5).
C7_EqualRatingsHalf ==
  (pc = "expected_score" /\ player_one = player_two)
    => ret = << One \div 2, One \div 2 >>

\* expected_score called with two equal ratings other than the default one.
C7_Witness ==
  /\ pc = "expected_score"
  /\ player_one = player_two
  /\ player_one = Lit(1408)
  /\ ret = << One \div 2, One \div 2 >>

\* C8: for equal ratings a, elo returns (a + K/2, a - K/2) on WIN,
\* (a - K/2, a + K/2) on LOSS and (a, a) on DRAW; for a = 1000.0 and K = 32
\* these are (1016, 984), (984, 1016) and (1000, 1000).
C8_EqualRatingsHalfK ==
  (pc = "elo" /\ player_one = player_two)
    => LET a == player_one
           up == Add(a, Div(k, Lit(2)))
           down == Sub(a, Div(k, Lit(2)))
       IN /\ outcome = "WIN" => ret = << up, down >>
          /\ outcome = "LOSS" => ret = << down, up >>
          /\ outcome = "DRAW" => ret = << a, a >>
          /\ (a = 1000 * One /\ k = 32 * One) =>
               /\ outcome = "WIN" => ret = << 1016 * One, 984 * One >>
               /\ outcome = "LOSS" => ret = << 984 * One, 1016 * One >>
               /\ outcome = "DRAW" => ret = << 1000 * One, 1000 * One >>

\* elo(1000.0, 1000.0, WIN, K = 32) has returned (1016.0, 984.0).
C8_Witness ==
  /\ pc = "elo"
  /\ player_one = 1000 * One
  /\ player_two = 1000 * One
  /\ k = 32 * One
  /\ outcome = "WIN"
  /\ ret = << 1016 * One, 984 * One >>

\* C9 as stated: one elo call changes each rating by at most K, and after
\* the n-th result of a rating period the player is within n * K of the
\* rating the period started from.
C9_SwingAtMostK ==
  /\ pc = "elo" => /\ Abs(ret[1] - player_one) <= k
                   /\ Abs(ret[2] - player_two) <= k
  /\ InPeriod => Abs(player - player_in) <= i * k

\* C9 amended: one elo call moves each rating by at most K up to the rounding
\* of the result, a (-) K <= a2 <= a (+) K with (-) and (+) the rounded
\* difference and sum, and after n results the player lies between the
\* rating the period started from with K subtracted n times and with K added
\* n times, each step rounded.
C9_SwingAtMostKRounded ==
  /\ pc = "elo" => /\ Sub(player_one, k) <= ret[1] /\ ret[1] <= Add(player_one, k)
                   /\ Sub(player_two, k) <= ret[2] /\ ret[2] <= Add(player_two, k)
  /\ InPeriod => /\ SubN(player_in, k, i) <= player
                 /\ player <= AddN(player_in, k, i)

\* An elo call that moved a rating by more than K.
C9_Witness ==
  /\ pc = "elo"
  /\ IsFinite(ret[1]) /\ IsFinite(ret[2])
  /\ \/ Abs(ret[1] - player_one) > k
     \/ Abs(ret[2] - player_two) > k

\* C10: a WIN never lowers player one nor raises player two, a LOSS never
\* raises player one nor lowers player two; in a rating period the running
\* rating does not decrease over a WIN step nor increase over a LOSS step.
C10_UpdateDirection ==
  /\ pc = "elo" =>
       /\ outcome = "WIN" => ret[1] >= player_one /\ ret[2] <= player_two
       /\ outcome = "LOSS" => ret[1] <= player_one /\ ret[2] >= player_two
  /\ InPeriod =>
       \A j \in 1..i :
         /\ results[j][2] = "WIN" => history[j + 1] >= history[j]
         /\ results[j][2] = "LOSS" => history[j + 1] <= history[j]

\* The lower-rated player has won and gained, the higher-rated one has lost.
C10_Witness ==
  /\ pc = "elo"
  /\ outcome = "WIN"
  /\ player_one < player_two
  /\ ret[1] > player_one
  /\ ret[2] < player_two


=============================================================================
